---- MODULE Spec2Model ----
(***************************************************************************)
(* Blue/green deployment pipeline of ponder-ecs (src/infra.ts, third       *)
(* revision of the stack): the DeploymentPromoterLambda handler, the       *)
(* alarms, the promotion topic, the two listeners and the deployment group *)
(* it is attached to.                                                      *)
(*                                                                         *)
(* The handler is translated statement by statement from the inline code.  *)
(* The deployment platform (CodeDeploy, CloudWatch, SNS) is not part of    *)
(* the repository: each platform step below is the behaviour that the      *)
(* construct named in its comment declares.  The platform keeps at most    *)
(* one active deployment per deployment group (Spec); SpecMulti lifts that *)
(* limit so that the handler is run against lists of several deployments.  *)
(***************************************************************************)
EXTENDS Naturals, Sequences, FiniteSets

(* ------------------------------ bounds --------------------------------- *)

\* deployment identifiers handed out by the platform: 1..MaxDeployments
MaxDeployments == 2

\* invocations of the handler (deliveries of the promotion notification)
MaxInvocations == 2

\* creation timestamps range over 0..MaxClock
MaxClock == 1

\* cap on the API calls of one invocation (the code makes at most two)
MaxCalls == 3

Ids == 1..MaxDeployments
Invocations == 1..MaxInvocations

\* deployments[0] of an empty array (JavaScript undefined)
Undefined == 0

(* ------------------------------ state ---------------------------------- *)

VARIABLES
    status,               \* deployment id -> lifecycle state
    createTime,           \* deployment id -> creation timestamp
    replacement,          \* deployment id -> target group of the new revision
    listener,             \* target groups of the port-80 listener's action
    testListener,         \* target groups of the test listener's action
    unhealthyHostsAlarm,  \* "OK" | "ALARM"
    promotionAlarm,       \* "OK" | "ALARM"
    promotionTopic,       \* TRUE while a notification awaits (re)delivery
    pc,                   \* invocation -> position in the handler
    listResult,           \* invocation -> response of the list call
    seen,                 \* invocation -> what the group held when it listed
    pending,              \* invocation -> ids still to be continued
    calls,                \* invocation -> API calls sent, in order
    log,                  \* invocation -> console output
    failure,              \* invocation -> error caught by the catch block
    thrown,               \* invocation -> error re-raised to the trigger
    datapoints,           \* PromotionAlarm: latest per-period 2XX sums
    build                 \* container build: inputs, position, result

vars == <<status, createTime, replacement, listener, testListener,
          unhealthyHostsAlarm, promotionAlarm, promotionTopic,
          pc, listResult, seen, pending, calls, log, failure, thrown,
          datapoints, build>>

platformVars == <<status, createTime, replacement, listener, testListener>>
alarmVars == <<unhealthyHostsAlarm, promotionAlarm>>
handlerVars == <<pc, listResult, seen, pending, calls, log, failure, thrown>>

TargetGroups == {"blue", "green"}

\* in-progress, waiting-for-approval ('Ready'), promoted, rolled-back
Active == {"InProgress", "Ready"}
Terminal == {"Promoted", "RolledBack"}

(* ------------------------- topology (declared) -------------------------- *)

\* listener.addAction('DefaultAction', forward([blueTargetGroup]))
ListenerDefaultAction == {"blue"}

\* TestListener: defaultAction forward([greenTargetGroup])
TestListenerDefaultAction == {"green"}

\* blueGreenDeploymentConfig: the new revision goes to the target group of
\* the pair that the production listener does not forward to
ReplacementGroup(prod) == CHOOSE g \in TargetGroups : g \notin prod

\* deploymentConfig ALL_AT_ONCE: production traffic moves to the
\* replacement group in one step
ShiftTrafficLinear(prod, repl) == prod \cup {repl}

ShiftTraffic(prod, repl) == {repl}

\* UnhealthyHostsAlarm: metric greenTargetGroup.metrics.unhealthyHostCount()
UnhealthyHostsAlarmMetric == "green"

\* PromotionAlarm: metric greenTargetGroup.metrics.httpCodeTarget(2XX count)
PromotionAlarmMetric == "green"

(* ------------------------- handler (inline code) ------------------------ *)

\* includeOnlyStatuses: ['Ready']
IncludeOnlyStatusesAll == {"Ready", "Promoted"}

IncludeOnlyStatuses == {"Ready"}

Range(f) == {f[i] : i \in DOMAIN f}

RECURSIVE Perms(_)
Perms(S) ==
    IF S = {} THEN {<<>>}
    ELSE UNION {{<<d>> \o p : p \in Perms(S \ {d})} : d \in S}

\* responses ListDeployments may give: the matching ids in any order; with
\* no match the deployments field is an empty array or is left out
ListResponses(st) ==
    LET match == {d \in Ids : st[d] \in IncludeOnlyStatuses} IN
    {[present |-> TRUE, deployments |-> p] : p \in Perms(match)}
        \cup (IF match = {} THEN {[present |-> FALSE, deployments |-> <<>>]}
              ELSE {})

\* !listResult.deployments || listResult.deployments.length === 0
NoneWaitingOffByOne(r) == ~r.present \/ Len(r.deployments) <= 1

NoneWaitingAbsentOnly(r) == ~r.present

NoneWaiting(r) == ~r.present \/ Len(r.deployments) = 0

\* const deploymentId = listResult.deployments[0]; one ContinueDeployment
SelectionAll(deployments) ==
    IF Len(deployments) = 0 THEN <<Undefined>> ELSE deployments

Selection(deployments) ==
    IF Len(deployments) = 0 THEN <<Undefined>> ELSE <<deployments[1]>>

\* catch (err) { console.error(..., err); throw err; }
CatchSwallow(err) ==
    [pc |-> "returned", logged |-> <<"Error", err>>, thrown |-> "None"]

CatchRetry(err) ==
    [pc |-> "list", logged |-> <<"Error", err>>, thrown |-> "None"]

Catch(err) ==
    [pc |-> "raised", logged |-> <<"Error", err>>, thrown |-> err]

(* ------------------------------- Init ----------------------------------- *)

\* no container build under way
NoBuild == [dockerfile |-> "none", args |-> {}, step |-> 0, env |-> <<>>, result |-> "none"]

NoResponse == [present |-> FALSE, deployments |-> <<>>]

Init ==
    /\ status = [d \in Ids |-> "None"]
    /\ createTime = [d \in Ids |-> 0]
    /\ replacement = [d \in Ids |-> "none"]
    /\ listener = ListenerDefaultAction
    /\ testListener = TestListenerDefaultAction
    /\ unhealthyHostsAlarm = "OK"
    /\ promotionAlarm = "OK"
    /\ promotionTopic = FALSE
    /\ pc = [h \in Invocations |-> "idle"]
    /\ listResult = [h \in Invocations |-> NoResponse]
    /\ seen = [h \in Invocations |-> "Unseen"]
    /\ pending = [h \in Invocations |-> <<>>]
    /\ calls = [h \in Invocations |-> <<>>]
    /\ log = [h \in Invocations |-> <<>>]
    /\ failure = [h \in Invocations |-> "None"]
    /\ thrown = [h \in Invocations |-> "None"]
    /\ datapoints = <<>>
    /\ build = NoBuild

(* --------------------------- platform steps ----------------------------- *)

\* creation timestamps the platform may stamp next: never before an
\* existing deployment's, equal when two are created within one tick
CreateTimes ==
    {t \in 0..MaxClock : \A e \in Ids : status[e] # "None" => createTime[e] <= t}

\* a new task-definition revision is pushed to the deployment group;
\* identifiers are numbered in creation order
StartDeployment(d) ==
    /\ status[d] = "None"
    /\ \A e \in Ids : e < d => status[e] # "None"
    /\ status' = [status EXCEPT ![d] = "InProgress"]
    /\ \E t \in CreateTimes : createTime' = [createTime EXCEPT ![d] = t]
    /\ replacement' = [replacement EXCEPT ![d] = ReplacementGroup(listener)]
    /\ testListener' = {ReplacementGroup(listener)}
    /\ UNCHANGED listener
    /\ UNCHANGED <<alarmVars, promotionTopic, handlerVars>>
    /\ UNCHANGED <<datapoints, build>>

\* one active deployment per deployment group
CreateDeployment(d) ==
    /\ \A e \in Ids : status[e] \notin Active
    /\ StartDeployment(d)

\* SpecMulti: no limit on the active deployments of the group
CreateDeploymentMulti(d) == StartDeployment(d)

\* the replacement task set is installed; deploymentApprovalWaitTime > 0
\* makes the deployment wait for a continue ('Ready')
ReplacementReady(d) ==
    /\ status[d] = "InProgress"
    /\ status' = [status EXCEPT ![d] = "Ready"]
    /\ UNCHANGED <<createTime, replacement, listener, testListener>>
    /\ UNCHANGED <<alarmVars, promotionTopic, handlerVars>>
    /\ UNCHANGED <<datapoints, build>>

\* alarms: [unhealthyHostsAlarm], autoRollback.deploymentInAlarm
AlarmRollback(d) ==
    /\ status[d] = "Ready"
    /\ unhealthyHostsAlarm = "ALARM"
    /\ status' = [status EXCEPT ![d] = "RolledBack"]
    /\ UNCHANGED <<createTime, replacement, listener, testListener>>
    /\ UNCHANGED <<alarmVars, promotionTopic, handlerVars>>
    /\ UNCHANGED <<datapoints, build>>

\* deploymentApprovalWaitTime (2 days) runs out: the deployment is stopped,
\* autoRollback.stoppedDeployment
ApprovalWaitExpires(d) ==
    /\ status[d] = "Ready"
    /\ status' = [status EXCEPT ![d] = "RolledBack"]
    /\ UNCHANGED <<createTime, replacement, listener, testListener>>
    /\ UNCHANGED <<alarmVars, promotionTopic, handlerVars>>
    /\ UNCHANGED <<datapoints, build>>

\* UnhealthyHostsAlarm: unhealthy host count >= 1 for 2 periods
UnhealthyHostsAlarmChanges ==
    /\ unhealthyHostsAlarm' = IF unhealthyHostsAlarm = "OK" THEN "ALARM" ELSE "OK"
    /\ UNCHANGED <<platformVars, promotionAlarm, promotionTopic, handlerVars>>
    /\ UNCHANGED <<datapoints, build>>

\* PromotionAlarm goes to ALARM: its action publishes to PromotionTopic.
\* Spec and SpecMulti do not track the datapoints: PromotionAlarmFires and
\* PromotionAlarmClears stand for the evaluations that change the alarm's
\* state (PromotionPeriod, below, is the evaluation itself)
PromotionAlarmFires ==
    /\ promotionAlarm = "OK"
    /\ promotionAlarm' = "ALARM"
    /\ promotionTopic' = TRUE
    /\ UNCHANGED <<platformVars, unhealthyHostsAlarm, handlerVars>>
    /\ UNCHANGED <<datapoints, build>>

PromotionAlarmClears ==
    /\ promotionAlarm = "ALARM"
    /\ promotionAlarm' = "OK"
    /\ UNCHANGED <<platformVars, unhealthyHostsAlarm, promotionTopic, handlerVars>>
    /\ UNCHANGED <<datapoints, build>>

(* ---------------------------- handler steps ----------------------------- *)

\* what the deployment group holds at the moment of a list call
GroupView ==
    IF \E d \in Ids : status[d] \in Active THEN "Active"
    ELSE IF \E d \in Ids : status[d] = "Promoted" THEN "AllEndedSomePromoted"
    ELSE "NoneOrRolledBack"

\* PromotionTopic's LambdaSubscription invokes the handler; delivery is
\* at-least-once, so the notification may stay for another delivery.
\* Invocations are numbered in the order they start.
Invoke(h) ==
    /\ pc[h] = "idle"
    /\ \A g \in Invocations : g < h => pc[g] # "idle"
    /\ promotionTopic
    /\ promotionTopic' \in BOOLEAN
    /\ pc' = [pc EXCEPT ![h] = "list"]
    /\ log' = [log EXCEPT ![h] = <<<<"Checking", "group">>>>]
    /\ UNCHANGED <<platformVars, alarmVars>>
    /\ UNCHANGED <<listResult, seen, pending, calls, failure, thrown>>
    /\ UNCHANGED <<datapoints, build>>

\* await client.send(listCommand) and the statements up to the next await
HandlerList(h) ==
    /\ pc[h] = "list"
    /\ Len(calls[h]) < MaxCalls
    /\ calls' = [calls EXCEPT ![h] = Append(@, <<"List", Undefined>>)]
    /\ seen' = [seen EXCEPT ![h] = GroupView]
    /\ \E r \in ListResponses(status) :
        /\ listResult' = [listResult EXCEPT ![h] = r]
        /\ IF NoneWaiting(r)
           THEN /\ log' = [log EXCEPT ![h] = Append(@, <<"NoDeployments", "exit">>)]
                /\ pc' = [pc EXCEPT ![h] = "returned"]
                /\ UNCHANGED pending
           ELSE /\ log' = [log EXCEPT ![h] = Append(@, <<"Found", "waiting">>)]
                /\ pending' = [pending EXCEPT ![h] = Selection(r.deployments)]
                /\ pc' = [pc EXCEPT ![h] = "continue"]
    /\ UNCHANGED <<platformVars, alarmVars, promotionTopic, failure, thrown>>
    /\ UNCHANGED <<datapoints, build>>

\* client.send(listCommand) rejects: control passes to the catch block
HandlerListFails(h) ==
    /\ pc[h] = "list"
    /\ Len(calls[h]) < MaxCalls
    /\ calls' = [calls EXCEPT ![h] = Append(@, <<"List", Undefined>>)]
    /\ failure' = [failure EXCEPT ![h] = "ListFailed"]
    /\ log' = [log EXCEPT ![h] = Append(@, Catch("ListFailed").logged)]
    /\ thrown' = [thrown EXCEPT ![h] = Catch("ListFailed").thrown]
    /\ pc' = [pc EXCEPT ![h] = Catch("ListFailed").pc]
    /\ UNCHANGED <<platformVars, alarmVars, promotionTopic, listResult, seen, pending>>
    /\ UNCHANGED <<datapoints, build>>

\* await client.send(continueCommand) succeeds: the deployment leaves the
\* wait and production traffic is rerouted to the replacement
HandlerContinue(h) ==
    /\ pc[h] = "continue"
    /\ Len(calls[h]) < MaxCalls
    /\ LET d == Head(pending[h]) IN
        /\ d \in Ids
        /\ status[d] = "Ready"
        /\ calls' = [calls EXCEPT ![h] = Append(@, <<"Continue", d>>)]
        /\ status' = [status EXCEPT ![d] = "Promoted"]
        /\ listener' = ShiftTraffic(listener, replacement[d])
        /\ pending' = [pending EXCEPT ![h] = Tail(@)]
        /\ log' = [log EXCEPT ![h] = Append(@, <<"Success", "continued">>)]
        /\ pc' = [pc EXCEPT ![h] =
                    IF Tail(pending[h]) = <<>> THEN "returned" ELSE "continue"]
    /\ UNCHANGED <<createTime, replacement, testListener>>
    /\ UNCHANGED <<alarmVars, promotionTopic, listResult, seen, failure, thrown>>
    /\ UNCHANGED <<datapoints, build>>

\* the platform's answer to a continue it rejects
ContinueError(d) ==
    IF d \notin Ids THEN {"InvalidDeploymentId"}
    ELSE IF status[d] = "Ready" THEN {"ServiceError"}
    ELSE IF status[d] = "None" THEN {"DeploymentDoesNotExist"}
    ELSE {"DeploymentIsNotInReadyState"}

\* await client.send(continueCommand) rejects: control passes to the catch
HandlerContinueFails(h) ==
    /\ pc[h] = "continue"
    /\ Len(calls[h]) < MaxCalls
    /\ LET d == Head(pending[h]) IN
        /\ calls' = [calls EXCEPT ![h] = Append(@, <<"Continue", d>>)]
        /\ \E err \in ContinueError(d) :
            /\ failure' = [failure EXCEPT ![h] = err]
            /\ log' = [log EXCEPT ![h] = Append(@, Catch(err).logged)]
            /\ thrown' = [thrown EXCEPT ![h] = Catch(err).thrown]
            /\ pc' = [pc EXCEPT ![h] = Catch(err).pc]
    /\ UNCHANGED <<platformVars, alarmVars, promotionTopic>>
    /\ UNCHANGED <<listResult, seen, pending>>
    /\ UNCHANGED <<datapoints, build>>

(* --------------------------- specifications ----------------------------- *)

Environment ==
    \/ \E d \in Ids : ReplacementReady(d)
    \/ \E d \in Ids : AlarmRollback(d)
    \/ \E d \in Ids : ApprovalWaitExpires(d)
    \/ UnhealthyHostsAlarmChanges
    \/ PromotionAlarmFires
    \/ PromotionAlarmClears

Handler ==
    \/ \E h \in Invocations : Invoke(h)
    \/ \E h \in Invocations : HandlerList(h)
    \/ \E h \in Invocations : HandlerListFails(h)
    \/ \E h \in Invocations : HandlerContinue(h)
    \/ \E h \in Invocations : HandlerContinueFails(h)

Next ==
    \/ \E d \in Ids : CreateDeployment(d)
    \/ Environment
    \/ Handler

Spec == Init /\ [][Next]_vars

\* SpecMulti follows a single invocation of the handler against a group
\* that may hold several deployments at once; what one invocation sends
\* depends on its own list response only
InvokeAlone(h) ==
    /\ \A g \in Invocations : pc[g] = "idle"
    /\ Invoke(h)

NextMulti ==
    \/ \E d \in Ids : CreateDeploymentMulti(d)
    \/ \E d \in Ids : ReplacementReady(d)
    \/ \E d \in Ids : ApprovalWaitExpires(d)
    \/ PromotionAlarmFires
    \/ \E h \in Invocations : InvokeAlone(h)
    \/ \E h \in Invocations : HandlerList(h)
    \/ \E h \in Invocations : HandlerListFails(h)
    \/ \E h \in Invocations : HandlerContinue(h)
    \/ \E h \in Invocations : HandlerContinueFails(h)

SpecMulti == Init /\ [][NextMulti]_vars

(* ----------------------- promotion alarm evaluation --------------------- *)

\* threshold: 2
PromotionThreshold == 2

\* evaluationPeriods: 5
PromotionEvaluationPeriods == 5

\* per-period sums of TARGET_2XX_COUNT: below, at and above the threshold
Samples == (PromotionThreshold - 1)..(PromotionThreshold + 1)

\* comparisonOperator GREATER_THAN_OR_EQUAL_TO_THRESHOLD
BreachingStrict(s) == s > PromotionThreshold

Breaching(s) == s >= PromotionThreshold

\* the alarm keeps the latest evaluationPeriods datapoints
Slide(dp, s) ==
    IF Len(dp) < PromotionEvaluationPeriods THEN Append(dp, s)
    ELSE Append(Tail(dp), s)

\* ALARM when every one of the evaluationPeriods datapoints is breaching
AlarmStateAnyPeriod(dp) ==
    IF Len(dp) >= 1 /\ \A i \in DOMAIN dp : Breaching(dp[i])
    THEN "ALARM" ELSE "OK"

AlarmState(dp) ==
    IF Len(dp) = PromotionEvaluationPeriods /\ \A i \in DOMAIN dp : Breaching(dp[i])
    THEN "ALARM" ELSE "OK"

\* one period (1 minute) ends with sum s: the alarm is evaluated, and its
\* SnsAction publishes to PromotionTopic when the state goes to ALARM
PromotionPeriod(s) ==
    /\ datapoints' = Slide(datapoints, s)
    /\ promotionAlarm' = AlarmState(datapoints')
    /\ promotionTopic' =
          IF promotionAlarm = "OK" /\ promotionAlarm' = "ALARM" THEN TRUE
          ELSE promotionTopic
    /\ UNCHANGED <<platformVars, unhealthyHostsAlarm, handlerVars, build>>

\* the last delivery of a notification: it is not delivered again
InvokeLast(h) ==
    /\ Invoke(h)
    /\ promotionTopic' = FALSE

\* an ended invocation leaves nothing behind: the handler keeps no state
\* between invocations, and further invocations can start
Retire(h) ==
    /\ pc[h] \in {"returned", "raised"}
    /\ pc' = [pc EXCEPT ![h] = "idle"]
    /\ listResult' = [listResult EXCEPT ![h] = NoResponse]
    /\ seen' = [seen EXCEPT ![h] = "Unseen"]
    /\ pending' = [pending EXCEPT ![h] = <<>>]
    /\ calls' = [calls EXCEPT ![h] = <<>>]
    /\ log' = [log EXCEPT ![h] = <<>>]
    /\ failure' = [failure EXCEPT ![h] = "None"]
    /\ thrown' = [thrown EXCEPT ![h] = "None"]
    /\ UNCHANGED <<platformVars, alarmVars, promotionTopic, datapoints, build>>

\* SpecAlarm: the promotion alarm, its topic and the invocations it causes,
\* with no deployment in the group.  SNS delivers a published notification
\* (it retries until an invocation is accepted, and stops redelivering at
\* some point), Lambda runs what it is handed.
NextAlarm ==
    \/ \E s \in Samples : PromotionPeriod(s)
    \/ \E h \in Invocations : Invoke(h)
    \/ \E h \in Invocations : HandlerList(h)
    \/ \E h \in Invocations : HandlerListFails(h)
    \/ \E h \in Invocations : Retire(h)

SpecAlarm ==
    /\ Init
    /\ [][NextAlarm]_vars
    /\ SF_vars(\E h \in Invocations : InvokeLast(h))
    /\ WF_vars(\E h \in Invocations : HandlerList(h))
    /\ WF_vars(\E h \in Invocations : Retire(h))

(* --------------------------- container build --------------------------- *)

\* values the schema build argument is given (the workflow passes the commit
\* id); the empty string is a value too
SchemaValues == {"", "3f9c2ab", "b71e04d"}

\* --build-arg sets: none, or DATABASE_SCHEMA=<value>
BuildArgs == {{}} \cup {{<<"DATABASE_SCHEMA", v>>} : v \in SchemaValues}

ArgNames(args) == {a[1] : a \in args}

Lit(s) == <<"lit", s>>
Var(n) == <<"var", n>>
Ins(op, name, value) == [op |-> op, name |-> name, value |-> value]

\* Dockerfile lines 1-17
Alpine ==
    << Ins("FROM", "node:alpine", <<>>),
       Ins("ENV", "PNPM_HOME", <<Lit("/pnpm")>>),
       Ins("ENV", "PATH", <<Var("PNPM_HOME"), Lit(":"), Var("PATH")>>),
       Ins("RUN", "corepack enable", <<>>),
       Ins("WORKDIR", "/app", <<>>),
       Ins("COPY", "package.json pnpm-lock.yaml", <<>>),
       Ins("RUN", "pnpm install", <<>>),
       Ins("COPY", ".", <<>>),
       Ins("EXPOSE", "42069", <<>>),
       Ins("ENV", "DATABASE_SCHEMA", <<Var("DATABASE_SCHEMA")>>),
       Ins("CMD", "pnpm start", <<>>) >>

\* Dockerfile lines 18-33
Slim ==
    << Ins("FROM", "node:20-slim", <<>>),
       Ins("WORKDIR", "/app", <<>>),
       Ins("ENV", "PNPM_HOME", <<Lit("/pnpm")>>),
       Ins("ENV", "PATH", <<Var("PNPM_HOME"), Lit(":"), Var("PATH")>>),
       Ins("RUN", "corepack enable", <<>>),
       Ins("COPY", "package.json pnpm-lock.yaml", <<>>),
       Ins("RUN", "pnpm install --frozen-lockfile", <<>>),
       Ins("COPY", ".", <<>>),
       Ins("EXPOSE", "42069", <<>>),
       Ins("ENV", "DATABASE_SCHEMA", <<Var("DATABASE_SCHEMA")>>),
       Ins("CMD", "pnpm start", <<>>) >>

Dockerfiles == {"alpine", "slim"}
Instructions(f) == IF f = "alpine" THEN Alpine ELSE Slim

\* the environment the base image brings
BaseEnv == [PATH |-> <<"/usr/local/bin">>]

\* a build argument is visible to later instructions only once an ARG
\* instruction declares it
DeclaredArgs(b) == {}

\* the value of $name: the environment first, then a declared build
\* argument, else the empty string
Lookup(b, n) ==
    IF n \in DOMAIN b.env THEN b.env[n]
    ELSE IF \E a \in DeclaredArgs(b) : a[1] = n
         THEN <<(CHOOSE a \in DeclaredArgs(b) : a[1] = n)[2]>>
         ELSE <<>>

RECURSIVE Expand(_, _)
Expand(tokens, b) ==
    IF tokens = <<>> THEN <<>>
    ELSE LET t == Head(tokens)
         IN  (IF t[1] = "lit" THEN <<t[2]>> ELSE Lookup(b, t[2]))
                 \o Expand(Tail(tokens), b)

Current == Instructions(build.dockerfile)[build.step + 1]

Building(op) ==
    /\ build.result = "building"
    /\ build.step < Len(Instructions(build.dockerfile))
    /\ Current.op = op

Advance(env, result) ==
    /\ build' = [build EXCEPT !.step = @ + 1, !.env = env, !.result = result]
    /\ UNCHANGED <<platformVars, alarmVars, promotionTopic, handlerVars,
                   datapoints>>

\* docker build [--build-arg ...] .
StartBuild(f, args) ==
    /\ build = NoBuild
    /\ build' = [dockerfile |-> f, args |-> args, step |-> 0,
                 env |-> <<>>, result |-> "building"]
    /\ UNCHANGED <<platformVars, alarmVars, promotionTopic, handlerVars,
                   datapoints>>

BuildFrom ==
    /\ Building("FROM")
    /\ Advance(BaseEnv, "building")

BuildEnv ==
    /\ Building("ENV")
    /\ Advance([n \in DOMAIN build.env \cup {Current.name} |->
                   IF n = Current.name THEN Expand(Current.value, build)
                   ELSE build.env[n]],
               "building")

BuildRun ==
    /\ Building("RUN")
    /\ Advance(build.env, "building")

\* the command exits non-zero: the build stops, no image
BuildRunFails ==
    /\ Building("RUN")
    /\ build' = [build EXCEPT !.result = "failed"]
    /\ UNCHANGED <<platformVars, alarmVars, promotionTopic, handlerVars,
                   datapoints>>

BuildWorkdir ==
    /\ Building("WORKDIR")
    /\ Advance(build.env, "building")

\* COPY and ADD
BuildCopy ==
    /\ Building("COPY")
    /\ Advance(build.env, "building")

BuildExpose ==
    /\ Building("EXPOSE")
    /\ Advance(build.env, "building")

\* the last instruction: the image is written
BuildCmd ==
    /\ Building("CMD")
    /\ Advance(build.env, "image")

NextBuild ==
    \/ \E f \in Dockerfiles, args \in BuildArgs : StartBuild(f, args)
    \/ BuildFrom
    \/ BuildEnv
    \/ BuildRun
    \/ BuildRunFails
    \/ BuildWorkdir
    \/ BuildCopy
    \/ BuildExpose
    \/ BuildCmd

SpecBuild == Init /\ [][NextBuild]_vars

\* a period in which the watched pool returns 2XX responses at or above
\* the threshold
HealthyPeriod(s) ==
    /\ Breaching(s)
    /\ PromotionPeriod(s)

\* SpecLive: deployments one after another while the pools stay healthy:
\* every period meets the threshold, the unhealthy-hosts alarm stays OK, no
\* API call is rejected and the approval wait does not run out.  CloudWatch
\* evaluates every period, SNS delivers, Lambda runs the handler to its end
\* and the platform finishes installing a replacement.
NextLive ==
    \/ \E d \in Ids : CreateDeployment(d)
    \/ \E d \in Ids : ReplacementReady(d)
    \/ \E s \in Samples : HealthyPeriod(s)
    \/ \E h \in Invocations : Invoke(h)
    \/ \E h \in Invocations : HandlerList(h)
    \/ \E h \in Invocations : HandlerContinue(h)
    \/ \E h \in Invocations : Retire(h)

SpecLive ==
    /\ Init
    /\ [][NextLive]_vars
    /\ WF_vars(\E d \in Ids : ReplacementReady(d))
    /\ WF_vars(\E s \in Samples : HealthyPeriod(s))
    /\ SF_vars(\E h \in Invocations : InvokeLast(h))
    /\ WF_vars(\E h \in Invocations : HandlerList(h))
    /\ WF_vars(\E h \in Invocations : HandlerContinue(h))
    /\ WF_vars(\E h \in Invocations : Retire(h))

(* ------------------------------ claims ---------------------------------- *)

IsContinue(c) == c[1] = "Continue"
IsList(c) == c[1] = "List"
ContinueCalls(h) == SelectSeq(calls[h], IsContinue)
ListCalls(h) == SelectSeq(calls[h], IsList)
Ended(h) == pc[h] \in {"returned", "raised"}
Listed(h) == pc[h] \notin {"idle", "list"} /\ failure[h] # "ListFailed"
ContinuedBy(d) == {h \in Invocations : <<"Continue", d>> \in Range(calls[h])}

\* C1: an invocation whose list call reports no 'Ready' deployment
\* (deployments absent or empty) sends no continue and returns normally,
\* raising nothing.
C1_NoWaitingNoOp ==
    \A h \in Invocations :
        (Listed(h) /\ (~listResult[h].present \/ Len(listResult[h].deployments) = 0))
            => /\ pc[h] = "returned"
               /\ ContinueCalls(h) = <<>>
               /\ thrown[h] = "None"
               /\ failure[h] = "None"

C1_Witness ==
    \E h \in Invocations :
        /\ pc[h] = "returned"
        /\ listResult[h].present
        /\ Len(listResult[h].deployments) = 0
        /\ calls[h] = <<<<"List", Undefined>>>>
        /\ seen[h] = "AllEndedSomePromoted"

\* C2: an invocation that found exactly one deployment waiting for approval
\* has, when it ends, sent exactly one continue, addressed to that one.
C2_OneWaitingOneContinue ==
    \A h \in Invocations :
        (Ended(h) /\ Len(listResult[h].deployments) = 1)
            => ContinueCalls(h) = <<<<"Continue", listResult[h].deployments[1]>>>>

C2_Witness ==
    \E h \in Invocations : \E d \in Ids :
        /\ pc[h] = "returned"
        /\ listResult[h].deployments = <<d>>
        /\ ContinueCalls(h) = <<<<"Continue", d>>>>
        /\ status[d] = "Promoted"

\* C3 as stated: for concurrent invocations against one qualifying
\* deployment, the continue is sent at most once in total, or no invocation
\* that sent it redundantly (after the deployment left the wait) ends in an
\* error.
C3_RedundantIsNoOp ==
    \A d \in Ids :
        \/ Cardinality(ContinuedBy(d)) <= 1
        \/ \A h \in ContinuedBy(d) :
              ~(pc[h] = "raised" /\ failure[h] = "DeploymentIsNotInReadyState")

\* C3 amended: the continue takes effect at most once (at most one
\* invocation returns normally after sending it for the deployment); every
\* other invocation that sent it has ended by re-raising the platform's
\* rejection.
C3_AtMostOneTakesEffect ==
    \A d \in Ids :
        /\ Cardinality({h \in ContinuedBy(d) : pc[h] = "returned"}) <= 1
        /\ \A h \in ContinuedBy(d) :
              pc[h] # "returned"
                  => /\ pc[h] = "raised"
                     /\ failure[h] \in {"DeploymentIsNotInReadyState", "ServiceError"}
                     /\ thrown[h] = failure[h]

C3_Witness ==
    \E d \in Ids : \E g, h \in Invocations :
        /\ g # h
        /\ listResult[g].deployments = <<d>>
        /\ listResult[h].deployments = <<d>>
        /\ ContinueCalls(g) = <<<<"Continue", d>>>>
        /\ ContinueCalls(h) = <<<<"Continue", d>>>>
        /\ pc[g] = "returned"
        /\ pc[h] = "raised"
        /\ failure[h] = "DeploymentIsNotInReadyState"

\* C7: when the continue fails, the handler has logged the failure and ended
\* by re-raising that same failure; it has not returned normally and has
\* sent exactly one list and one continue call (no retry).
C7_FailedContinueReRaised ==
    \A h \in Invocations :
        failure[h] \notin {"None", "ListFailed"}
            => /\ pc[h] = "raised"
               /\ thrown[h] = failure[h]
               /\ log[h][Len(log[h])] = <<"Error", failure[h]>>
               /\ Len(ListCalls(h)) = 1
               /\ Len(ContinueCalls(h)) = 1

C7_Witness ==
    \E h \in Invocations : \E d \in Ids :
        /\ pc[h] = "raised"
        /\ ContinueCalls(h) = <<<<"Continue", d>>>>
        /\ status[d] \in Terminal
        /\ thrown[h] = "DeploymentIsNotInReadyState"

\* C8: an invocation that lists after a deployment was promoted, with no
\* deployment in progress or waiting since, finds nothing and sends no
\* continue.
C8_DuplicateDeliveryNoOp ==
    \A h \in Invocations :
        (Listed(h) /\ seen[h] = "AllEndedSomePromoted")
            => /\ ~listResult[h].present \/ listResult[h].deployments = <<>>
               /\ pending[h] = <<>>
               /\ ContinueCalls(h) = <<>>
               /\ pc[h] = "returned"

C8_Witness ==
    \E g, h \in Invocations : \E d \in Ids :
        /\ g # h
        /\ pc[g] = "returned"
        /\ ContinueCalls(g) = <<<<"Continue", d>>>>
        /\ status[d] = "Promoted"
        /\ \A e \in Ids : e # d => status[e] = "None"
        /\ seen[h] = "AllEndedSomePromoted"
        /\ pc[h] = "returned"
        /\ calls[h] = <<<<"List", Undefined>>>>

\* C4: while the unhealthy-hosts alarm and the promotion alarm are both in
\* ALARM for a waiting deployment, no step promotes it (its final state is
\* set by the rollback), and an invocation that lists once the deployment is
\* rolled back never selects it for a continue.
C4_RollbackTakesPrecedence ==
    [][\A d \in Ids :
          /\ (status[d] = "Ready" /\ unhealthyHostsAlarm = "ALARM"
                                   /\ promotionAlarm = "ALARM")
                => status'[d] # "Promoted"
          /\ \A h \in Invocations :
                (pc[h] = "list" /\ pc'[h] # "list" /\ status[d] = "RolledBack")
                    => d \notin Range(pending'[h])]_vars

\* the earliest of a set of deployments, ties broken by identifier order
Earliest(S) ==
    CHOOSE d \in S : \A e \in S :
        \/ createTime[d] < createTime[e]
        \/ createTime[d] = createTime[e] /\ d <= e

\* C5: with several deployments waiting, the deployment the handler selects
\* and continues is the earliest created of those listed (ties broken by
\* identifier), whatever the order of the list response.
C5_EarliestSelected ==
    \A h \in Invocations :
        (Listed(h) /\ Len(listResult[h].deployments) >= 1)
            => /\ \A i \in DOMAIN pending[h] :
                     pending[h][i] = Earliest(Range(listResult[h].deployments))
               /\ \A i \in DOMAIN calls[h] :
                     IsContinue(calls[h][i]) =>
                        calls[h][i][2] = Earliest(Range(listResult[h].deployments))

\* C6: one invocation sends at most one continue, however many deployments
\* were waiting when it listed.
C6_AtMostOneContinue ==
    \A h \in Invocations : Len(ContinueCalls(h)) <= 1

C6_Witness ==
    \E h \in Invocations :
        /\ pc[h] = "returned"
        /\ Len(listResult[h].deployments) >= 2
        /\ Len(ContinueCalls(h)) = 1
        /\ \E d \in Ids : status[d] = "Ready"

\* C9: the production listener forwards to at most one target group, and a
\* deployment in progress or waiting has its revision in the other group.
C9_OneProductionGroup ==
    /\ Cardinality(listener) <= 1
    /\ \A d \in Ids :
          status[d] \in Active
              => replacement[d] \in TargetGroups \ listener

C9_Witness ==
    \E d, e \in Ids :
        /\ status[d] = "Promoted"
        /\ listener = {"green"}
        /\ status[e] \in Active
        /\ replacement[e] = "blue"

LegalMoves ==
    {<<"None", "InProgress">>, <<"InProgress", "Ready">>,
     <<"Ready", "Promoted">>, <<"Ready", "RolledBack">>}

\* C10: a deployment moves only in-progress -> waiting -> promoted or
\* rolled-back, the last two being final, and a deployment that is waiting
\* while the unhealthy-hosts alarm is in ALARM is not promoted.
C10_Lifecycle ==
    [][\A d \in Ids :
          /\ status'[d] # status[d] => <<status[d], status'[d]>> \in LegalMoves
          /\ (status[d] = "Ready" /\ unhealthyHostsAlarm = "ALARM")
                => status'[d] \in {"Ready", "RolledBack"}]_vars

\* C11: at every point, also once promotions have swapped the roles of the
\* two target groups, both alarms watch the group that holds the candidate
\* pool: never the group the production listener forwards to, and the
\* replacement group of any deployment in progress or waiting.
C11_AlarmsWatchCandidate ==
    /\ UnhealthyHostsAlarmMetric \notin listener
    /\ PromotionAlarmMetric \notin listener
    /\ \A d \in Ids :
          status[d] \in Active
              => /\ UnhealthyHostsAlarmMetric = replacement[d]
                 /\ PromotionAlarmMetric = replacement[d]

\* C15: when the list call fails, the invocation sends no continue and ends
\* by re-raising the list failure, and the step leaves every deployment's
\* state as it was.
C15_ListFailureReRaised ==
    /\ [](\A h \in Invocations :
            failure[h] = "ListFailed"
                => /\ pc[h] = "raised"
                   /\ thrown[h] = "ListFailed"
                   /\ ContinueCalls(h) = <<>>
                   /\ log[h][Len(log[h])] = <<"Error", "ListFailed">>)
    /\ [][\A h \in Invocations :
            (failure[h] # "ListFailed" /\ failure'[h] = "ListFailed")
                => /\ status' = status
                   /\ listener' = listener]_vars

C15_Witness ==
    \E h \in Invocations : \E d \in Ids :
        /\ failure[h] = "ListFailed"
        /\ pc[h] = "raised"
        /\ calls[h] = <<<<"List", Undefined>>>>
        /\ status[d] = "Ready"

C14_EventuallyPromoted ==
    \A d \in Ids : (status[d] = "Ready") ~> (status[d] = "Promoted")

\* C13: a build started without the DATABASE_SCHEMA build argument never
\* produces an image.
C13_MissingSchemaFails ==
    (build.dockerfile \in Dockerfiles /\ "DATABASE_SCHEMA" \notin ArgNames(build.args))
        => build.result # "image"

====
